---------------------------- MODULE Spec2Model ----------------------------
(***************************************************************************)
(* A model of kineticstoolkit_extensions.timeseries.ui_draw                *)
(* (src/kineticstoolkit_extensions/timeseries/__init__.py).                *)
(*                                                                         *)
(* ui_draw is one synchronous function that blocks in plt.ginput while the *)
(* user clicks.  The model has one action for the code that runs from the  *)
(* call to the first blocking ginput and one action for each return of a   *)
(* ginput with the list of points the user clicked, which runs all the     *)
(* code up to the next blocking ginput or to the end of the function.      *)
(*                                                                         *)
(* Numbers.  Pixel coordinates and range values are integers.  Results of  *)
(* the affine scaling are rationals <<n, d>> in lowest terms with d > 0;   *)
(* d = 0 encodes the non-finite results of a numpy division by zero:       *)
(* <<1, 0>> is inf, <<-1, 0>> is -inf and <<0, 0>> is nan.  Rescale is the *)
(* scaling without rounding; FlRescale is the same expression evaluated    *)
(* operation by operation in binary floating point (round to nearest,      *)
(* ties to even) with a mantissa of MantissaBits bits.                     *)
(***************************************************************************)
EXTENDS Integers, Sequences, FiniteSets, TLC

(***************************************************************************)
(* Bounds of the model.                                                    *)
(***************************************************************************)
\* Largest pixel coordinate of the wide and of the tall image.
MaxPix == 1
\* Largest number of curve points captured in one call (all curves).
MaxPoints == 2
\* Mantissa width of the floating-point arithmetic of FlRescale.
MantissaBits == 3
\* Largest magnitude of the operands drawn for FlRescale.
MaxOperand == 3

(***************************************************************************)
(* Python values.                                                          *)
(***************************************************************************)
NoneV == [tag |-> "None"]
Str(s) == [tag |-> "str", s |-> s]
IntV(n) == [tag |-> "int", n |-> n]
List(items) == [tag |-> "list", items |-> items]
Array(v) == [tag |-> "array", v |-> v]

(***************************************************************************)
(* Rationals.                                                              *)
(***************************************************************************)
Abs(a) == IF a < 0 THEN -a ELSE a

RECURSIVE GCD(_, _)
GCD(a, b) == IF b = 0 THEN a ELSE GCD(b, a % b)

\* n / d as numpy divides floats: a zero divisor gives inf, -inf or nan.
Q(n, d) ==
    IF d = 0 THEN <<(IF n > 0 THEN 1 ELSE IF n < 0 THEN -1 ELSE 0), 0>>
    ELSE LET g == GCD(Abs(n), Abs(d))
             s == IF d < 0 THEN -1 ELSE 1
         IN  <<(s * n) \div g, (s * d) \div g>>

IsFinite(q) == q[2] # 0
QLess(a, b) == IsFinite(a) /\ IsFinite(b) /\ a[1] * b[2] < b[1] * a[2]
QLeq(a, b) == IsFinite(a) /\ IsFinite(b) /\ a[1] * b[2] <= b[1] * a[2]
QInt(n) == <<n, 1>>
QBetween(q, a, b) == (QLeq(a, q) /\ QLeq(q, b)) \/ (QLeq(b, q) /\ QLeq(q, a))


QNeg(a) == <<-a[1], a[2]>>
QSub(a, b) == Q(a[1] * b[2] - b[1] * a[2], a[2] * b[2])
QMul(a, b) == Q(a[1] * b[1], a[2] * b[2])
\* inf and nan absorb a finite addend.
QAdd(a, b) ==
    IF ~IsFinite(a) THEN a
    ELSE IF ~IsFinite(b) THEN b
    ELSE Q(a[1] * b[2] + b[1] * a[2], a[2] * b[2])
\* The divisor is finite; a zero divisor gives inf, -inf or nan.
QDiv(a, b) == IF b[1] = 0 THEN Q(a[1], 0) ELSE Q(a[1] * b[2], a[2] * b[1])

(***************************************************************************)
(* Binary floating point: a value is 0 or +-m * 2^e with                   *)
(* 2^(MantissaBits-1) <= m < 2^MantissaBits.  Fl rounds a rational to the  *)
(* nearest such value, ties to the even mantissa.  The exponent is not     *)
(* bounded (no overflow, no underflow).                                    *)
(***************************************************************************)
RECURSIVE Pow2(_)
Pow2(k) == IF k = 0 THEN 1 ELSE 2 * Pow2(k - 1)

RoundHalfEven(a, d) ==
    LET f == a \div d
        r == a % d
    IN  IF 2 * r < d THEN f
        ELSE IF 2 * r > d THEN f + 1
        ELSE IF f % 2 = 0 THEN f ELSE f + 1

\* Rounds (a / d) * (num / den), a / d > 0, scaling a / d into the mantissa range.
RECURSIVE FlPos(_, _, _, _)
FlPos(a, d, num, den) ==
    IF a >= Pow2(MantissaBits) * d THEN FlPos(a, 2 * d, 2 * num, den)
    ELSE IF a < Pow2(MantissaBits - 1) * d THEN FlPos(2 * a, d, num, 2 * den)
    ELSE Q(RoundHalfEven(a, d) * num, den)

Fl(q) ==
    IF ~IsFinite(q) \/ q[1] = 0 THEN q
    ELSE IF q[1] < 0 THEN QNeg(FlPos(-q[1], q[2], 1, 1))
    ELSE FlPos(q[1], q[2], 1, 1)

(***************************************************************************)
(* The affine scaling of both axes, lines 202-208 and 219-221:             *)
(*   (pixel - pixel_low) * (real_high - real_low)                          *)
(*       / (pixel_high - pixel_low) + real_low                             *)
(* evaluated left to right.                                                *)
(***************************************************************************)
\* The scaling without rounding.
Rescale(p, pl, ph, rl, rh) ==
    QAdd(QDiv(QMul(QSub(p, pl), QSub(rh, rl)), QSub(ph, pl)), rl)

\* Variant: the real offset real_low is not added back.
FlRescaleNoOffset(p, pl, ph, rl, rh) ==
    LET shifted == Fl(QSub(p, pl))
        span    == Fl(QSub(rh, rl))
        prod    == Fl(QMul(shifted, span))
        pixspan == Fl(QSub(ph, pl))
    IN  Fl(QDiv(prod, pixspan))

\* The scaling as the floating-point arithmetic of the code computes it:
\* every operation's result is rounded.
FlRescale(p, pl, ph, rl, rh) ==
    LET shifted == Fl(QSub(p, pl))
        span    == Fl(QSub(rh, rl))
        prod    == Fl(QMul(shifted, span))
        pixspan == Fl(QSub(ph, pl))
        quot    == Fl(QDiv(prod, pixspan))
    IN  Fl(QAdd(quot, rl))

\* No operation of the scaling of p rounds: every exact intermediate result
\* is a floating-point value.
NoRounding(p, pl, ph, rl, rh) ==
    LET shifted == QSub(p, pl)
        span    == QSub(rh, rl)
        prod    == QMul(shifted, span)
        pixspan == QSub(ph, pl)
        quot    == QDiv(prod, pixspan)
    IN  \A t \in {shifted, span, prod, pixspan, quot, QAdd(quot, rl)} : Fl(t) = t


(***************************************************************************)
(* Sequences and sorting.                                                  *)
(***************************************************************************)
Range(f) == {f[i] : i \in DOMAIN f}
Reverse(sq) == [i \in 1..Len(sq) |-> sq[Len(sq) + 1 - i]]
SetMin(S) == CHOOSE m \in S : \A o \in S : m <= o
SetMax(S) == CHOOSE m \in S : \A o \in S : o <= m

\* sorted(list(S)) of a set of integers.
RECURSIVE SortedList(_)
SortedList(S) ==
    IF S = {} THEN <<>> ELSE <<SetMin(S)>> \o SortedList(S \ {SetMin(S)})

\* ndarray.sort() of a one-dimensional array of integers.
RECURSIVE SortArray(_)
SortArray(a) ==
    IF a = <<>> THEN <<>>
    ELSE LET i == CHOOSE k \in DOMAIN a : \A j \in DOMAIN a : a[k] <= a[j]
         IN  <<a[i]>> \o SortArray(SubSeq(a, 1, i - 1) \o SubSeq(a, i + 1, Len(a)))

IndexArrays(n) ==
    {f \in [1..n -> 1..n] : \A i, j \in 1..n : f[i] = f[j] => i = j}

\* Variant: the index array of a descending sort.
ArgsortDescending(a) ==
    {f \in IndexArrays(Len(a)) :
        \A i, j \in 1..Len(a) : i < j => a[f[i]] >= a[f[j]]}

\* ndarray.argsort() with the default kind, which is not stable: every index
\* array that puts the values in ascending order is a possible result.
Argsort(a) ==
    {f \in IndexArrays(Len(a)) :
        \A i, j \in 1..Len(a) : i < j => a[f[i]] <= a[f[j]]}

\* Python's min and max of two numbers, on rationals with inf and -inf.
QMin2(a, b) ==
    IF a = <<1, 0>> THEN b ELSE IF b = <<1, 0>> THEN a
    ELSE IF a = <<-1, 0>> \/ b = <<-1, 0>> THEN <<-1, 0>>
    ELSE IF QLess(b, a) THEN b ELSE a
QMax2(a, b) ==
    IF a = <<-1, 0>> THEN b ELSE IF b = <<-1, 0>> THEN a
    ELSE IF a = <<1, 0>> \/ b = <<1, 0>> THEN <<1, 0>>
    ELSE IF QLess(a, b) THEN b ELSE a

(***************************************************************************)
(* Python dicts: a sequence of <<key, value>> entries in insertion order.  *)
(***************************************************************************)
DictHas(d, k) == \E i \in 1..Len(d) : d[i][1] = k
DictGet(d, k) == d[CHOOSE i \in 1..Len(d) : d[i][1] = k][2]
\* d[k] = v: a new key is appended, an existing key keeps its position.
DictSet(d, k, v) ==
    IF DictHas(d, k)
    THEN [i \in 1..Len(d) |-> IF d[i][1] = k THEN <<k, v>> ELSE d[i]]
    ELSE Append(d, <<k, v>>)


(***************************************************************************)
(* State.                                                                  *)
(***************************************************************************)
VARIABLES
    args,                   \* the arguments of the call, as passed
    world,                  \* what the image sources hold, and the image size
    pc,                     \* idle, draw, time_range, value_range, done, error
    err,                    \* the exception that ended the call, or "none"
    data_keys,              \* local data_keys after line 94: a list value
    data_units,             \* local data_units after line 98
    img,                    \* local img: "unset", "image" or "None"
    fig,                    \* the figure: "none", "open" or "closed"
    log,                    \* calls made to the image and display libraries
    session,                \* position of the capture loop in data_keys
    point_array,            \* local point_array, line 138
    time_in_pixels_dict,
    value_in_pixels_dict,
    extent,                 \* min/max_time_in_pixels, min/max_value_in_pixels
    time_clicks,            \* np.array(plt.ginput(2))[:, 0], before the sort
    value_clicks,           \* -np.array(plt.ginput(2))[:, 1], before the sort
    time_range_in_pixels,
    value_range_in_pixels,
    out_ts,                 \* the returned TimeSeries, or NoneV
    calc                    \* operands and result of one affine scaling

vars ==
    <<args, world, pc, err, data_keys, data_units, img, fig, log, session,
      point_array, time_in_pixels_dict, value_in_pixels_dict, extent, time_clicks,
      value_clicks, time_range_in_pixels, value_range_in_pixels, out_ts, calc>>

Inf == <<1, 0>>
NegInf == <<-1, 0>>

\* Locals of ui_draw before the call, lines 112-115 and 124-125 included.
Locals ==
    /\ pc = "idle"
    /\ err = "none"
    /\ data_keys = NoneV
    /\ data_units = NoneV
    /\ img = "unset"
    /\ fig = "none"
    /\ log = <<>>
    /\ session = 0
    /\ point_array = <<>>
    /\ time_in_pixels_dict = <<>>
    /\ value_in_pixels_dict = <<>>
    /\ extent = [min_time |-> Inf, max_time |-> NegInf,
                 min_value |-> Inf, max_value |-> NegInf]
    /\ time_clicks = <<>>
    /\ value_clicks = <<>>
    /\ time_range_in_pixels = <<>>
    /\ value_range_in_pixels = <<>>
    /\ out_ts = NoneV

NoCalc ==
    [p |-> 0, pl |-> 0, ph |-> 0, rl |-> 0, rh |-> 0, applied |-> FALSE,
     real |-> <<0, 1>>]

(***************************************************************************)
(* Inputs.                                                                 *)
(***************************************************************************)
\* filename: absent, a string, or a value that is no string.
FilenameArgs == {NoneV, Str("plot.png"), IntV(3)}
\* time_range and value_range: absent, ascending, descending, equal ends.
RangeArgs == {NoneV, Array(<<0, 2>>), Array(<<2, 0>>), Array(<<1, 1>>)}
\* data_keys: a bare string, lists of strings (empty, distinct, repeated),
\* a list with an element that is no string, a value that is no list.
DataKeysArgs ==
    {Str("a"), List(<<>>), List(<<Str("a")>>), List(<<Str("a"), Str("b")>>),
     List(<<Str("b"), Str("a")>>), List(<<Str("a"), Str("a")>>),
     List(<<Str("a"), IntV(1)>>), IntV(7)}
\* data_units: absent, a bare string, lists of strings, invalid values.
DataUnitsArgs ==
    {NoneV, Str("N"), List(<<Str("N")>>), List(<<Str("N"), Str("mm")>>),
     List(<<Str("N"), IntV(1)>>), IntV(7)}
\* ImageGrab.grabclipboard(): returns an image, returns None (no image on
\* the clipboard), or raises TypeError.
ClipboardOutcomes == {"image", "None", "TypeError"}
\* Image.open(filename): returns an image or raises.
FileOutcomes == {"image", "OSError"}


(***************************************************************************)
(* ui_draw: parameter checks, lines 85-100.                                *)
(***************************************************************************)
\* check_param(name, value, str)
IsStr(v) == v.tag = "str"
\* check_param(name, value, list, contents_type=str)
IsListOfStr(v) ==
    v.tag = "list" /\ \A i \in 1..Len(v.items) : v.items[i].tag = "str"

\* Variant: a bare string is not wrapped in a list.
DataKeysNotWrapped(keys) == IF keys.tag = "str" THEN List(<<>>) ELSE keys

\* Lines 93-94.
NormDataKeys(keys) == IF keys.tag = "str" THEN List(<<keys>>) ELSE keys

\* Lines 97-98; keys is a list.
NormDataUnits(units, keys) ==
    IF units.tag = "str"
    THEN List([i \in 1..Len(keys.items) |-> units])
    ELSE units

\* Variant: the check of data_units is missing.
ParameterChecksNoUnitsCheck(a) ==
    IF a.filename # NoneV /\ ~IsStr(a.filename)
    THEN [raised |-> "check_param", data_keys |-> NoneV, data_units |-> NoneV]
    ELSE LET keys == NormDataKeys(a.data_keys)
         IN  IF ~IsListOfStr(keys)
             THEN [raised |-> "check_param", data_keys |-> keys,
                   data_units |-> NoneV]
             ELSE [raised |-> "none", data_keys |-> keys,
                   data_units |-> NormDataUnits(a.data_units, keys)]

\* Lines 86-100: the exception raised by a check, or the normalised locals.
ParameterChecks(a) ==
    IF a.filename # NoneV /\ ~IsStr(a.filename)
    THEN [raised |-> "check_param", data_keys |-> NoneV, data_units |-> NoneV]
    ELSE LET keys == NormDataKeys(a.data_keys)
         IN  IF ~IsListOfStr(keys)
             THEN [raised |-> "check_param", data_keys |-> keys,
                   data_units |-> NoneV]
             ELSE LET units == NormDataUnits(a.data_units, keys)
                  IN  IF units # NoneV /\ ~IsListOfStr(units)
                      THEN [raised |-> "check_param", data_keys |-> keys,
                            data_units |-> units]
                      ELSE [raised |-> "none", data_keys |-> keys,
                            data_units |-> units]

\* Lines 102-109: the image, or the exception raised.
LoadImage(filename, w) ==
    IF filename = NoneV
    THEN IF w.clipboard = "TypeError"
         THEN [raised |-> "TypeError: The clipboard does not contain an image.",
               img |-> "unset"]
         ELSE [raised |-> "none", img |-> w.clipboard]
    ELSE IF w.file = "OSError"
         THEN [raised |-> "OSError", img |-> "unset"]
         ELSE [raised |-> "none", img |-> "image"]

(***************************************************************************)
(* ui_draw: conversions of the captured points.                            *)
(***************************************************************************)
Column0(pts) == [j \in 1..Len(pts) |-> pts[j][1]]
Column1(pts) == [j \in 1..Len(pts) |-> pts[j][2]]

\* Line 143: point_array[sorted_index, 0]
CurveTime(pts, sorted_index) ==
    [j \in 1..Len(pts) |-> pts[sorted_index[j]][1]]

\* Lines 144-146: -point_array[sorted_index, 1]
CurveValue(pts, sorted_index) ==
    [j \in 1..Len(pts) |-> -pts[sorted_index[j]][2]]

\* Line 169: np.array(plt.ginput(2, timeout=0))[:, 0]
TimeClicks(pts) == Column0(pts)

\* Lines 181-183: -np.array(plt.ginput(2, timeout=0))[:, 1]
ValueClicks(pts) == [j \in 1..Len(pts) |-> -Column1(pts)[j]]

\* Variant: the pixel positions are kept in click order.
RangeInPixelsUnsorted(clicks) == [j \in 1..Len(clicks) |-> QInt(clicks[j])]

\* Lines 170 and 184: the sort() of the captured pixel positions.
RangeInPixels(clicks) ==
    [j \in 1..Len(clicks) |-> QInt(SortArray(clicks)[j])]

\* Lines 149-160.
UpdateExtent(ext, t, v) ==
    [min_time  |-> QMin2(ext.min_time, QInt(SetMin(Range(t)))),
     max_time  |-> QMax2(ext.max_time, QInt(SetMax(Range(t)))),
     min_value |-> QMin2(ext.min_value, QInt(SetMin(Range(v)))),
     max_value |-> QMax2(ext.max_value, QInt(SetMax(Range(v))))]


(***************************************************************************)
(* ui_draw: the output TimeSeries, lines 190-223.                          *)
(*                                                                         *)
(* A channel holds what is handed to TimeSeries.merge for its key: the     *)
(* curve's own pixel times, its scaled values and its unit.  The           *)
(* resampling of the values on the shared time base is done by             *)
(* kineticstoolkit and is not part of this repository.                     *)
(***************************************************************************)
\* Variant: the time samples of the curves are concatenated, not united.
NewTimeConcatenated(tdict) ==
    LET RECURSIVE Concat(_)
        Concat(i) == IF i = 0 THEN <<>> ELSE Concat(i - 1) \o tdict[i][2]
    IN  SortArray(Concat(Len(tdict)))

\* Lines 191-195: sorted(list(new_time)).
NewTime(tdict) ==
    SortedList(UNION {Range(tdict[i][2]) : i \in 1..Len(tdict)})

\* Variant: the index is off by one (Python's index -1 is the last item).
UnitOfKeyOffByOne(units, i_key, key) ==
    units.items[IF i_key = 1 THEN Len(units.items) ELSE i_key - 1]

\* Line 213: data_units[i_key], i_key the key's position in the dict.
UnitOfKey(units, i_key, key) == units.items[i_key]

\* The exception raised in the loop of lines 197-216, if any.
ChannelError(vdict, vrp, units) ==
    IF Len(vdict) = 0 THEN "none"
    ELSE IF args.value_range = NoneV
    THEN "TypeError: 'NoneType' object is not subscriptable"
    ELSE IF Len(vrp) < 2 THEN "IndexError"
    ELSE IF units = NoneV THEN "none"
    ELSE IF units.tag # "list"
    THEN "TypeError: object is not subscriptable"
    ELSE IF Len(units.items) < Len(vdict) THEN "IndexError"
    ELSE "none"

\* The exception raised by lines 219-221, if any.
TimeError(trp) ==
    IF args.time_range = NoneV
    THEN "TypeError: 'NoneType' object is not subscriptable"
    ELSE IF Len(trp) < 2 THEN "IndexError"
    ELSE "none"

\* Lines 197-213, one key.
Channel(tdict, vdict, vrp, units, i_key) ==
    LET key == vdict[i_key][1]
        value_in_pixels == vdict[i_key][2]
        value_range == args.value_range.v
    IN  [key   |-> key,
         time  |-> tdict[i_key][2],
         value |-> [j \in 1..Len(value_in_pixels) |->
                      Rescale(QInt(value_in_pixels[j]), vrp[1], vrp[2],
                              QInt(value_range[1]), QInt(value_range[2]))],
         unit  |-> IF units = NoneV THEN NoneV
                   ELSE UnitOfKey(units, i_key, key)]

\* Lines 190-223: the TimeSeries returned, or the exception raised.
Output(tdict, vdict, trp, vrp, units) ==
    IF ChannelError(vdict, vrp, units) # "none"
    THEN [raised |-> ChannelError(vdict, vrp, units), ts |-> NoneV]
    ELSE IF TimeError(trp) # "none"
    THEN [raised |-> TimeError(trp), ts |-> NoneV]
    ELSE LET new_time == NewTime(tdict)
             time_range == args.time_range.v
         IN  [raised |-> "none",
              ts |-> [time |-> [j \in 1..Len(new_time) |->
                                  Rescale(QInt(new_time[j]), trp[1], trp[2],
                                          QInt(time_range[1]),
                                          QInt(time_range[2]))],
                      channels |-> [i \in 1..Len(vdict) |->
                                      Channel(tdict, vdict, vrp, units, i)]]]


(***************************************************************************)
(* ui_draw: the code between two blocking ginput calls.  Each operator     *)
(* below runs from one place of the function to the next ginput, or to     *)
(* the end, and sets pc, err, fig, log, the pixel ranges and out_ts.       *)
(***************************************************************************)
\* Variant: the figure is not closed.
ReturnWithoutClose(tdict, vdict, trp, vrp, units, lg) ==
    \E r \in {Output(tdict, vdict, trp, vrp, units)} :
        /\ fig' = "open"
        /\ log' = lg
        /\ pc' = IF r.raised = "none" THEN "done" ELSE "error"
        /\ err' = r.raised
        /\ out_ts' = r.ts

\* Lines 188-223.
CloseAndReturn(tdict, vdict, trp, vrp, units, lg) ==
    \E r \in {Output(tdict, vdict, trp, vrp, units)} :
        /\ fig' = "closed"
        /\ log' = Append(lg, <<"close">>)
        /\ pc' = IF r.raised = "none" THEN "done" ELSE "error"
        /\ err' = r.raised
        /\ out_ts' = r.ts

\* Lines 174-186, then on.
GetValueRange(tdict, vdict, ext, trp, units, lg) ==
    IF args.value_range # NoneV
    THEN /\ pc' = "value_range"
         /\ err' = "none"
         /\ fig' = "open"
         /\ log' = Append(lg, <<"ginput_value_range">>)
         /\ UNCHANGED <<value_range_in_pixels, out_ts>>
    ELSE LET vrp == <<ext.min_value, ext.max_value>>
         IN  /\ value_range_in_pixels' = vrp
             /\ CloseAndReturn(tdict, vdict, trp, vrp, units, lg)

\* Lines 162-172, then on.
GetTimeRange(tdict, vdict, ext, units, lg) ==
    IF args.time_range # NoneV
    THEN /\ pc' = "time_range"
         /\ err' = "none"
         /\ fig' = "open"
         /\ log' = Append(lg, <<"ginput_time_range">>)
         /\ UNCHANGED <<time_range_in_pixels, value_range_in_pixels, out_ts>>
    ELSE LET trp == <<ext.min_time, ext.max_time>>
         IN  /\ time_range_in_pixels' = trp
             /\ GetValueRange(tdict, vdict, ext, trp, units, lg)

\* An exception leaves the function: nothing else changes.
Raise(e, lg) ==
    /\ pc' = "error"
    /\ err' = e
    /\ log' = lg
    /\ UNCHANGED <<time_range_in_pixels, value_range_in_pixels, out_ts>>

(***************************************************************************)
(* Actions.                                                                *)
(***************************************************************************)
\* The call of ui_draw, lines 85-138: up to the first blocking ginput.
UiDraw ==
    /\ pc = "idle"
    /\ UNCHANGED <<args, world, calc, point_array, time_clicks,
                   value_clicks, time_in_pixels_dict, value_in_pixels_dict,
                   extent>>
    /\ LET checked == ParameterChecks(args)
           loaded == LoadImage(args.filename, world)
           keys == checked.data_keys
           opened == <<<<"load">>, <<"figure">>>>
       IN  IF checked.raised # "none"
           THEN /\ Raise(checked.raised, log)
                /\ UNCHANGED <<data_keys, data_units, img, fig, session>>
           ELSE /\ data_keys' = keys
                /\ data_units' = checked.data_units
                /\ IF loaded.raised # "none"
                   THEN /\ Raise(loaded.raised, <<<<"load">>>>)
                        /\ UNCHANGED <<img, fig, session>>
                   ELSE /\ img' = loaded.img
                        /\ IF loaded.img = "None"
                           THEN \* plt.imshow(None), line 119
                                /\ Raise("TypeError: imshow", opened)
                                /\ fig' = "open"
                                /\ UNCHANGED session
                           ELSE IF keys.tag # "list"
                           THEN \* for data_key in data_keys, line 127
                                /\ Raise("TypeError: object is not iterable",
                                         opened)
                                /\ fig' = "open"
                                /\ UNCHANGED session
                           ELSE IF keys.items = <<>>
                           THEN /\ session' = 0
                                /\ GetTimeRange(<<>>, <<>>, extent,
                                                checked.data_units, opened)
                           ELSE /\ session' = 1
                                /\ pc' = "draw"
                                /\ err' = "none"
                                /\ fig' = "open"
                                /\ log' = Append(opened,
                                                 <<"ginput", keys.items[1]>>)
                                /\ UNCHANGED <<time_range_in_pixels,
                                               value_range_in_pixels, out_ts>>

\* ginput(-1) returns pts, lines 138-160, then the next key or the ranges.
EndDraw(pts) ==
    /\ point_array' = pts
    /\ UNCHANGED <<args, world, calc, data_keys, data_units, img,
                   time_clicks, value_clicks>>
    /\ IF pts = <<>>
       THEN \* point_array[:, 0] of an empty array, line 141
            /\ Raise("IndexError", log)
            /\ UNCHANGED <<fig, session, time_in_pixels_dict,
                           value_in_pixels_dict, extent>>
       ELSE \E sorted_index \in Argsort(Column0(pts)) :
              LET data_key == data_keys.items[session]
                  t == CurveTime(pts, sorted_index)
                  v == CurveValue(pts, sorted_index)
                  tdict == DictSet(time_in_pixels_dict, data_key, t)
                  vdict == DictSet(value_in_pixels_dict, data_key, v)
                  ext == UpdateExtent(extent, t, v)
              IN  /\ time_in_pixels_dict' = tdict
                  /\ value_in_pixels_dict' = vdict
                  /\ extent' = ext
                  /\ IF session < Len(data_keys.items)
                     THEN /\ session' = session + 1
                          /\ log' = Append(log,
                                 <<"ginput", data_keys.items[session + 1]>>)
                          /\ UNCHANGED <<pc, err, fig, time_range_in_pixels,
                                         value_range_in_pixels, out_ts>>
                     ELSE /\ UNCHANGED session
                          /\ GetTimeRange(tdict, vdict, ext, data_units, log)

\* ginput(2) of the time axis returns pts, lines 169-170, then on.
EndTimeRange(pts) ==
    /\ time_clicks' = TimeClicks(pts)
    /\ UNCHANGED <<args, world, calc, data_keys, data_units, img, session,
                   point_array, value_clicks, time_in_pixels_dict,
                   value_in_pixels_dict, extent>>
    /\ IF pts = <<>>
       THEN /\ Raise("IndexError", log)
            /\ UNCHANGED fig
       ELSE LET trp == RangeInPixels(TimeClicks(pts))
            IN  /\ time_range_in_pixels' = trp
                /\ GetValueRange(time_in_pixels_dict, value_in_pixels_dict,
                                 extent, trp, data_units, log)

\* ginput(2) of the value axis returns pts, lines 181-184, then on.
EndValueRange(pts) ==
    /\ value_clicks' = ValueClicks(pts)
    /\ UNCHANGED <<args, world, calc, data_keys, data_units, img, session,
                   point_array, time_clicks, time_in_pixels_dict,
                   value_in_pixels_dict, extent, time_range_in_pixels>>
    /\ IF pts = <<>>
       THEN /\ pc' = "error"
            /\ err' = "IndexError"
            /\ UNCHANGED <<fig, log, value_range_in_pixels, out_ts>>
       ELSE LET vrp == RangeInPixels(ValueClicks(pts))
            IN  /\ value_range_in_pixels' = vrp
                /\ CloseAndReturn(time_in_pixels_dict, value_in_pixels_dict,
                                  time_range_in_pixels, vrp, data_units, log)

\* Number of curve points stored in the dict.
PointsHeld ==
    LET RECURSIVE Sum(_)
        Sum(i) == IF i = 0 THEN 0
                  ELSE Len(time_in_pixels_dict[i][2]) + Sum(i - 1)
    IN  Sum(Len(time_in_pixels_dict))

\* The pixels of the displayed image, where ginput registers a click.
Pixels == (0..(world.size.w - 1)) \X (0..(world.size.h - 1))

\* The lists of at most n points that a ginput can return.
PointLists(n) == UNION {[1..k -> Pixels] : k \in 0..n}

\* plt.ginput(-1, timeout=0) of line 138 returns: any number of points,
\* none included (the user ends the capture at once).
DrawCurve ==
    /\ pc = "draw"
    /\ \E pts \in PointLists(MaxPoints - PointsHeld) : EndDraw(pts)

\* plt.ginput(2, timeout=0) of line 169 returns: two points, or fewer when
\* the user ends the capture early.
ClickTimeRange ==
    /\ pc = "time_range"
    /\ \E pts \in PointLists(2) : EndTimeRange(pts)

\* plt.ginput(2, timeout=0) of line 181 returns.
ClickValueRange ==
    /\ pc = "value_range"
    /\ \E pts \in PointLists(2) : EndValueRange(pts)

\* One evaluation of the affine scaling on floating-point operands.
ApplyRescale ==
    /\ ~calc.applied
    /\ calc' = [calc EXCEPT
                   !.applied = TRUE,
                   !.real = FlRescale(QInt(calc.p), QInt(calc.pl),
                                      QInt(calc.ph), QInt(calc.rl),
                                      QInt(calc.rh))]
    /\ UNCHANGED <<args, world, pc, err, data_keys, data_units, img, fig,
                   log, session, point_array, time_in_pixels_dict,
                   value_in_pixels_dict, extent, time_clicks, value_clicks,
                   time_range_in_pixels, value_range_in_pixels, out_ts>>

(***************************************************************************)
(* Specifications.                                                         *)
(***************************************************************************)
\* The image sources that the filename selects.
Worlds(filename, size) ==
    IF filename = NoneV
    THEN {[clipboard |-> c, file |-> "image", size |-> size] :
             c \in ClipboardOutcomes}
    ELSE {[clipboard |-> "image", file |-> f, size |-> size] :
             f \in FileOutcomes}

\* Images: a square of four pixels, a row and a column of MaxPix + 1 pixels.
Square == [w |-> 2, h |-> 2]
WideImage == [w |-> MaxPix + 1, h |-> 1]
TallImage == [w |-> 1, h |-> MaxPix + 1]
DefaultRange == Array(<<0, 2>>)
ImageFile == Str("plot.png")

CallArgs(fn, tr, vr, dk, du) ==
    [filename |-> fn, time_range |-> tr, value_range |-> vr,
     data_keys |-> dk, data_units |-> du]

\* The calls of Spec, on the square image: every filename and image
\* source; every data_keys with every data_units; every presence of the two
\* ranges with no, one and two curves.
SpecCalls ==
    {CallArgs(fn, DefaultRange, DefaultRange, Str("a"), NoneV) :
        fn \in FilenameArgs}
    \cup {CallArgs(ImageFile, DefaultRange, DefaultRange, dk, du) :
            dk \in DataKeysArgs, du \in DataUnitsArgs}
    \cup {CallArgs(ImageFile, tr, vr, dk, NoneV) :
            tr \in {NoneV, DefaultRange}, vr \in {NoneV, DefaultRange},
            dk \in {List(<<>>), Str("a"), List(<<Str("a"), Str("b")>>)}}

Init ==
    /\ Locals
    /\ calc = NoCalc
    /\ args \in SpecCalls
    /\ world \in Worlds(args.filename, Square)

OneCurve == List(<<Str("a")>>)
TwoCurves == List(<<Str("a"), Str("b")>>)

\* The calls of SpecCal, with valid arguments and no units: one and two
\* curves on the square with both ranges supplied or absent; two curves on
\* the wide image with every time_range; one curve on the tall image with
\* every value_range.
CalCalls ==
    {<<CallArgs(ImageFile, r, r, dk, NoneV), Square>> :
        r \in {NoneV, DefaultRange}, dk \in {OneCurve, TwoCurves}}
    \cup {<<CallArgs(ImageFile, r, DefaultRange, TwoCurves, NoneV), WideImage>> :
            r \in RangeArgs}
    \cup {<<CallArgs(ImageFile, DefaultRange, r, OneCurve, NoneV), TallImage>> :
            r \in RangeArgs}

InitCal ==
    /\ Locals
    /\ calc = NoCalc
    /\ \E c \in CalCalls :
          /\ args = c[1]
          /\ world = [clipboard |-> "image", file |-> "image", size |-> c[2]]

\* Floating-point operands of one scaling: the integers of magnitude at
\* most MaxOperand that the mantissa holds.
Operands == {n \in -MaxOperand..MaxOperand : Fl(QInt(n)) = QInt(n)}

InitRescale ==
    /\ Locals
    /\ args = [filename |-> NoneV, time_range |-> NoneV, value_range |-> NoneV,
               data_keys |-> Str("data"), data_units |-> NoneV]
    /\ world = [clipboard |-> "None", file |-> "image", size |-> Square]
    /\ \E p, pl, ph \in Operands \cap Nat, rl, rh \in Operands :
          calc = [p |-> p, pl |-> pl, ph |-> ph, rl |-> rl, rh |-> rh,
                  applied |-> FALSE, real |-> <<0, 1>>]

Next ==
    \/ UiDraw
    \/ DrawCurve
    \/ ClickTimeRange
    \/ ClickValueRange

NextRescale == ApplyRescale

Spec == Init /\ [][Next]_vars
SpecCal == InitCal /\ [][Next]_vars
SpecRescale == InitRescale /\ [][NextRescale]_vars


(***************************************************************************)
(* Properties.                                                             *)
(***************************************************************************)
Returned == pc = "done"

\* The entries of the data_keys argument: a bare string stands for one entry.
ExpectedKeys ==
    IF args.data_keys.tag = "str" THEN <<args.data_keys>>
    ELSE args.data_keys.items

PairwiseDistinct(sq) ==
    \A i, j \in 1..Len(sq) : sq[i] = sq[j] => i = j

\* The keys of the capture sessions requested so far, in order.
Sessions ==
    LET asked == SelectSeq(log, LAMBDA e : e[1] = "ginput")
    IN  [i \in 1..Len(asked) |-> asked[i][2]]

ChannelKeys == {out_ts.channels[i].key : i \in 1..Len(out_ts.channels)}

\* C1: for each axis whose range argument is omitted, and curves whose pixel
\* extent on that axis has min < max, the call returns a TimeSeries in which
\* the smallest pixel coordinate of the axis maps to 0 and the largest to 1.
C1_OmittedRangeIsUnitInterval ==
    LET omit_time == args.time_range = NoneV
        omit_value == args.value_range = NoneV
        covered ==
            /\ fig = "closed"
            /\ omit_time \/ omit_value
            /\ Len(time_in_pixels_dict) > 0
            /\ Len(time_range_in_pixels) = 2
            /\ Len(value_range_in_pixels) = 2
            /\ omit_time => QLess(extent.min_time, extent.max_time)
            /\ omit_value => QLess(extent.min_value, extent.max_value)
    IN  covered =>
          /\ Returned
          /\ omit_time =>
                /\ out_ts.time[1] = QInt(0)
                /\ out_ts.time[Len(out_ts.time)] = QInt(1)
          /\ omit_value =>
                \A i \in 1..Len(out_ts.channels) :
                    \A j \in 1..Len(out_ts.channels[i].value) :
                        LET v == QInt(value_in_pixels_dict[i][2][j])
                        IN  /\ v = extent.min_value
                                => out_ts.channels[i].value[j] = QInt(0)
                            /\ v = extent.max_value
                                => out_ts.channels[i].value[j] = QInt(1)

\* The types that the parameter checks accept.
ArgumentsWellTyped(a) ==
    /\ a.filename.tag \in {"None", "str"}
    /\ \/ a.data_keys.tag = "str"
       \/ /\ a.data_keys.tag = "list"
          /\ \A i \in 1..Len(a.data_keys.items) :
                a.data_keys.items[i].tag = "str"
    /\ \/ a.data_units.tag \in {"None", "str"}
       \/ /\ a.data_units.tag = "list"
          /\ \A i \in 1..Len(a.data_units.items) :
                a.data_units.items[i].tag = "str"

\* C2: a call with a filename, data_keys or data_units of a wrong type ends
\* in the check's error with no image loaded, no figure opened and no click
\* requested; no call that ends in that error has done any of these.
C2_ArgumentErrorBeforeInteraction ==
    /\ (pc # "idle" /\ ~ArgumentsWellTyped(args)) =>
          /\ pc = "error"
          /\ err = "check_param"
    /\ err = "check_param" =>
          /\ log = <<>>
          /\ fig = "none"
          /\ img = "unset"

C2_Witness ==
    /\ pc = "error"
    /\ err = "check_param"
    /\ args.filename = ImageFile
    /\ args.data_keys = List(<<Str("a"), Str("b")>>)
    /\ args.data_units = List(<<Str("N"), IntV(1)>>)

\* The pixel x-coordinates of all curves.
TimePixels ==
    UNION {Range(time_in_pixels_dict[i][2]) : i \in 1..Len(time_in_pixels_dict)}

\* A pixel x-coordinate mapped through the time calibration.
TimeCalibration(x) ==
    Rescale(QInt(x), time_range_in_pixels[1], time_range_in_pixels[2],
            QInt(args.time_range.v[1]), QInt(args.time_range.v[2]))

StrictlyAscending(sq) == \A i, j \in 1..Len(sq) : i < j => QLess(sq[i], sq[j])

SortedUnion ==
    /\ StrictlyAscending(out_ts.time)
    /\ Range(out_ts.time) = {TimeCalibration(x) : x \in TimePixels}
    /\ Len(out_ts.time) = Cardinality(TimePixels)

\* C3 as stated: for every returned TimeSeries, with any time_range, the time
\* base is ascending, free of duplicates and equal to the union of the
\* curves' pixel x-coordinates mapped through the time calibration.
C3_SortedUnionAnyRange == Returned => SortedUnion

\* C3, amended: the same for every returned TimeSeries whose time_range is
\* ascending and whose two time-axis clicks are at distinct x positions.
C3_SortedUnion ==
    (/\ Returned
     /\ args.time_range.v[1] < args.time_range.v[2]
     /\ time_range_in_pixels[1] # time_range_in_pixels[2]) => SortedUnion

\* Two curves with different x-coordinates, calibrated on distinct clicks.
C3_Witness ==
    /\ Returned
    /\ args.time_range = DefaultRange
    /\ time_range_in_pixels[1] # time_range_in_pixels[2]
    /\ Len(time_in_pixels_dict) = 2
    /\ time_in_pixels_dict[1][2] # time_in_pixels_dict[2][2]
    /\ Len(out_ts.time) = 2


\* The operands of the scaling that was applied.
CalcBetween == (calc.pl <= calc.p /\ calc.p <= calc.ph)
               \/ (calc.ph <= calc.p /\ calc.p <= calc.pl)

CalcNoRounding ==
    NoRounding(QInt(calc.p), QInt(calc.pl), QInt(calc.ph),
               QInt(calc.rl), QInt(calc.rh))

\* The scaling of pixel_high under the same calibration.
CalcAtHigh ==
    FlRescale(QInt(calc.ph), QInt(calc.pl), QInt(calc.ph),
              QInt(calc.rl), QInt(calc.rh))

\* C4 as stated: for pixel_high # pixel_low the scaling maps pixel_low to
\* real_low and pixel_high to real_high, and every pixel between pixel_low
\* and pixel_high to a value between real_low and real_high.
C4_RescaleExactEndpoints ==
    (calc.applied /\ calc.ph # calc.pl) =>
        /\ calc.p = calc.pl => calc.real = QInt(calc.rl)
        /\ calc.p = calc.ph => calc.real = QInt(calc.rh)
        /\ CalcBetween => QBetween(calc.real, QInt(calc.rl), QInt(calc.rh))

\* C4, amended: for pixel_high # pixel_low the scaling maps pixel_low to
\* real_low exactly; every pixel between pixel_low and pixel_high is mapped
\* between real_low and the image of pixel_high; and when no operation of the
\* scaling rounds, pixel_high is mapped to real_high and every pixel between
\* pixel_low and pixel_high to a value between real_low and real_high.
C4_Rescale ==
    (calc.applied /\ calc.ph # calc.pl) =>
        /\ calc.p = calc.pl => calc.real = QInt(calc.rl)
        /\ CalcBetween => QBetween(calc.real, QInt(calc.rl), CalcAtHigh)
        /\ CalcNoRounding =>
              /\ calc.p = calc.ph => calc.real = QInt(calc.rh)
              /\ CalcBetween =>
                    QBetween(calc.real, QInt(calc.rl), QInt(calc.rh))

\* A pixel strictly inside the calibration whose scaling rounds.
C4_Witness ==
    /\ calc.applied
    /\ calc.pl < calc.p
    /\ calc.p < calc.ph
    /\ calc.rl < calc.rh
    /\ ~CalcNoRounding

\* C5 as stated: a returned call has run one capture session per entry of
\* data_keys, in order, and its TimeSeries holds exactly one channel per
\* entry, named by that entry; a bare string counts as a one-entry list.
C5_OneChannelPerEntry ==
    Returned =>
        /\ Sessions = ExpectedKeys
        /\ ChannelKeys = Range(ExpectedKeys)
        /\ Len(out_ts.channels) = Len(ExpectedKeys)

\* C5, amended: a returned call has run one capture session per entry of
\* data_keys, in order, and its TimeSeries holds exactly one channel per
\* distinct entry, named by that entry, hence one per entry when the entries
\* are pairwise distinct; a bare string counts as a one-entry list.
C5_OneChannelPerDistinctEntry ==
    Returned =>
        /\ Sessions = ExpectedKeys
        /\ ChannelKeys = Range(ExpectedKeys)
        /\ Len(out_ts.channels) = Cardinality(Range(ExpectedKeys))
        /\ PairwiseDistinct(ExpectedKeys) =>
              Len(out_ts.channels) = Len(ExpectedKeys)

\* Two keys given out of alphabetical order, two channels.
C5_Witness ==
    /\ Returned
    /\ args.data_keys = List(<<Str("b"), Str("a")>>)
    /\ Sessions = <<Str("b"), Str("a")>>
    /\ Len(out_ts.channels) = 2

\* A bare string key, one channel.
C5_WitnessBareString ==
    /\ Returned
    /\ args.data_keys = Str("a")
    /\ Len(out_ts.channels) = 1

UnitsByIndex ==
    \A i \in 1..Len(ExpectedKeys) :
        /\ i <= Len(args.data_units.items)
        /\ \A c \in 1..Len(out_ts.channels) :
              out_ts.channels[c].key = ExpectedKeys[i]
                  => out_ts.channels[c].unit = args.data_units.items[i]

UnitsSingleOrOmitted ==
    /\ args.data_units.tag = "str" =>
          \A c \in 1..Len(out_ts.channels) :
              out_ts.channels[c].unit = args.data_units
    /\ args.data_units = NoneV =>
          \A c \in 1..Len(out_ts.channels) :
              out_ts.channels[c].unit = NoneV

\* C6 as stated: in a returned TimeSeries, a single string data_units is the
\* unit of every channel; with a list, the channel named data_keys[i] has
\* unit data_units[i] for every index i of data_keys; with data_units
\* omitted no channel has a unit.
C6_UnitPerIndex ==
    Returned =>
        /\ UnitsSingleOrOmitted
        /\ args.data_units.tag = "list" => UnitsByIndex

\* C6, amended: the same, the list case for pairwise distinct data_keys.
C6_UnitPerDistinctKey ==
    Returned =>
        /\ UnitsSingleOrOmitted
        /\ (args.data_units.tag = "list" /\ PairwiseDistinct(ExpectedKeys))
              => UnitsByIndex

\* Two distinct keys with a unit each.
C6_Witness ==
    /\ Returned
    /\ args.data_keys = List(<<Str("a"), Str("b")>>)
    /\ args.data_units = List(<<Str("N"), Str("mm")>>)
    /\ out_ts.channels[2].unit = Str("mm")

\* C7: a call without filename on a clipboard that holds no image ends in
\* the error "The clipboard does not contain an image.".
C7_NoImageError ==
    (/\ pc # "idle"
     /\ ArgumentsWellTyped(args)
     /\ args.filename = NoneV
     /\ world.clipboard # "image")
        => /\ pc = "error"
           /\ err = "TypeError: The clipboard does not contain an image."

\* C8: a returned TimeSeries is the one obtained with the two time-axis
\* clicks, or the two value-axis clicks, made in the other order.
C8_ClickOrderIndependent ==
    Returned =>
        LET units == data_units
            trp == RangeInPixels(Reverse(time_clicks))
            vrp == RangeInPixels(Reverse(value_clicks))
        IN  /\ out_ts = Output(time_in_pixels_dict, value_in_pixels_dict,
                               trp, value_range_in_pixels, units).ts
            /\ out_ts = Output(time_in_pixels_dict, value_in_pixels_dict,
                               time_range_in_pixels, vrp, units).ts

\* Both pairs of calibration clicks made high end first.
C8_Witness ==
    /\ Returned
    /\ Len(time_clicks) = 2
    /\ Len(value_clicks) = 2
    /\ time_clicks[1] > time_clicks[2]
    /\ value_clicks[1] > value_clicks[2]

\* The events of a returned call, in order.
ExpectedLog ==
    <<  <<"load">>, <<"figure">>  >>
    \o [i \in 1..Len(ExpectedKeys) |-> <<"ginput", ExpectedKeys[i]>>]
    \o (IF args.time_range # NoneV THEN << <<"ginput_time_range">> >>
        ELSE <<>>)
    \o (IF args.value_range # NoneV THEN << <<"ginput_value_range">> >>
        ELSE <<>>)
    \o << <<"close">> >>

\* C9: a returned call has loaded the image, opened the figure, run one
\* capture session per key in order, asked for the time-axis clicks iff
\* time_range was given, then for the value-axis clicks iff value_range was
\* given, then closed the figure; the figure is closed at most once and
\* nothing follows the close.
C9_EventOrder ==
    /\ Returned => (log = ExpectedLog /\ fig = "closed")
    /\ \A i \in 1..Len(log) : log[i] = <<"close">> => i = Len(log)

\* Two capture sessions and both calibrations.
C9_Witness ==
    /\ Returned
    /\ fig = "closed"
    /\ Len(log) = 7

\* The key of the curve captured last.
LastKey == data_keys.items[IF pc = "draw" THEN session - 1 ELSE session]

\* C10: the stored curve of the clicks captured last has ascending
\* x-coordinates, as many points as clicks, and is a rearrangement of the
\* clicks in which every value is the negated y of the click of its x.
C10_CurveSorted ==
    point_array # <<>> =>
        LET t == DictGet(time_in_pixels_dict, LastKey)
            v == DictGet(value_in_pixels_dict, LastKey)
            n == Len(point_array)
        IN  /\ Len(t) = n
            /\ Len(v) = n
            /\ \A i, j \in 1..n : i < j => t[i] <= t[j]
            /\ \E f \in IndexArrays(n) :
                  \A j \in 1..n : /\ t[j] = point_array[f[j]][1]
                                  /\ v[j] = -point_array[f[j]][2]

\* Clicks made right to left, at different heights.
C10_Witness ==
    /\ Len(point_array) = 2
    /\ point_array[1][1] > point_array[2][1]
    /\ point_array[1][2] # point_array[2][2]

=============================================================================
